---------------------------- MODULE Spec2Model ----------------------------
(***************************************************************************)
(* Frame-level model of the Gantt editor (GanttApp::update and the chart   *)
(* and editor it drives).  One action is one UI frame: the keyboard        *)
(* shortcuts, the pending requests of the previous frame, the side panel   *)
(* (editor, table), the chart (drag state machine, link drag, context      *)
(* menus) and the dialog, in the order update() runs them.                 *)
(*                                                                         *)
(* Dates are day numbers.  A task carries the fields the operations read   *)
(* or write: id, start, end, parent_id, is_milestone.  name, progress,     *)
(* priority, description and color are written only by the editor and read *)
(* by nothing modelled here.  No parent is collapsed, so every row is      *)
(* visible: collapsing only removes rows from the chart, hence only        *)
(* removes gestures.                                                       *)
(***************************************************************************)
EXTENDS Integers, Sequences, FiniteSets, TLC

\* ------------------------------------------------------------------ bounds
MaxFrames == 4         \* frames of one run of Spec
MaxGestureFrames == 6  \* frames of one run of SpecGesture
MaxHierarchyFrames == 5  \* frames of one run of SpecHierarchy
MaxDependencyFrames == 6  \* frames of one run of SpecDependency
MaxUndoDepth == 2      \* snapshots each history stack keeps
MaxRows == 7           \* the longest task list row_index_from_pointer_y is tried on
MaxZoomFrames == 16    \* frames of one run of SpecZoom
MaxRouteFrames == 1    \* frames of one run of SpecRoute
PpdUnit == 1000        \* the parts of a pixel pixels_per_day is counted in
PxUnit == 8            \* the parts of a pixel the arrows' coordinates are counted in

\* ------------------------------------------------------- program constants
PixelsPerDay == 18    \* TimelineViewport::new
MinPixelsPerDay == 2  \* TimelineViewport::zoom_out
MaxPixelsPerDay == 80 \* TimelineViewport::zoom_in
Stub == 10            \* dependency_route_points: STUB
LoopDrop == 8         \* dependency_route_points: loop_y = from.y + 8.0
LaneMin == 2          \* dependency_route_points: the least lane_x of StartToStart
RowHeight == 30       \* ThemeSizing::row_height
RowGap == 2           \* ThemeSizing::row_gap
HeaderHeight == 44    \* ThemeSizing::header_height
SubtaskDays == 7      \* add_subtask: start + 7 days
DialogDays == 7       \* create_task_from_dialog: start + 7 days
Today == 0            \* chrono::Local::now().date_naive(), the day of the run

NoId == 0             \* Option<Uuid>::None; the ids handed out start at 1
OtherId == 90         \* the Uuid of a task in a file, none the run hands out
Kinds == {"FinishToStart", "StartToStart", "FinishToFinish", "StartToFinish"}
Roles == {"move", "left", "right", "milestone"}

Min2(a, b) == IF a <= b THEN a ELSE b
Max2(a, b) == IF a >= b THEN a ELSE b
Abs(x) == IF x < 0 THEN -x ELSE x
SetMin(S) == CHOOSE x \in S : \A y \in S : x <= y
SetMax(S) == CHOOSE x \in S : \A y \in S : x >= y
Range(s) == {s[i] : i \in 1..Len(s)}

\* ------------------------------------------------------------------- tasks
\* Task::new
NewTask(id, start, end) ==
  [id |-> id, start |-> start, end |-> end, parent_id |-> NoId,
   is_milestone |-> FALSE]

\* Task::new_milestone
NewMilestone(id, date) ==
  [id |-> id, start |-> date, end |-> date, parent_id |-> NoId,
   is_milestone |-> TRUE]

TaskIds(ts) == {ts[i].id : i \in 1..Len(ts)}
IndexOf(ts, id) == CHOOSE i \in 1..Len(ts) : ts[i].id = id
TaskById(ts, id) == ts[IndexOf(ts, id)]

\* Task::children_ids: the tasks whose parent_id is this task
ChildrenIdx(ts, id) == {i \in 1..Len(ts) : ts[i].parent_id = id}
ChildrenIds(ts, id) == {ts[i].id : i \in ChildrenIdx(ts, id)}
\* Task::has_children
HasChildren(ts, id) == ChildrenIdx(ts, id) # {}

\* Project::recalculate_parent_dates: one pass over the sequence; a task
\* with children takes the min start and max end of its children.
RECURSIVE RollupFrom(_, _)
RollupFrom(ts, i) ==
  IF i > Len(ts) THEN ts
  ELSE LET kids == ChildrenIdx(ts, ts[i].id)
       IN IF kids = {} THEN RollupFrom(ts, i + 1)
          ELSE RollupFrom(
                 [ts EXCEPT ![i].start = SetMin({ts[k].start : k \in kids}),
                            ![i].end = SetMax({ts[k].end : k \in kids})],
                 i + 1)

RecalculateParentDates(ts) == RollupFrom(ts, 1)

\* Project::sort_tasks_grouped: every top-level task in its place, followed by
\* its children in their relative order; a task that is neither top-level nor
\* the child of a top-level task keeps its relative order at the end.
RECURSIVE Concat(_)
Concat(ss) == IF ss = <<>> THEN <<>> ELSE Head(ss) \o Concat(Tail(ss))

SortTasksGrouped(ts) ==
  LET IsTop(t) == t.parent_id = NoId
      tops == SelectSeq(ts, IsTop)
      topIds == {tops[i].id : i \in 1..Len(tops)}
      Group(p) == LET IsKid(t) == t.parent_id = p.id
                  IN <<p>> \o SelectSeq(ts, IsKid)
      IsRest(t) == t.parent_id # NoId /\ t.parent_id \notin topIds
  IN Concat([i \in 1..Len(tops) |-> Group(tops[i])]) \o SelectSeq(ts, IsRest)

\* ----------------------------------------------------------- undo history
\* Snapshot { tasks, dependencies }
Snap(a) == [tasks |-> a.tasks, dependencies |-> a.dependencies]

\* A stack holds at most MaxUndoDepth snapshots; the oldest is evicted.
Trim(st) == IF Len(st) > MaxUndoDepth THEN Tail(st) ELSE st

\* What the last push of the running frame saw (bookkeeping for the
\* properties; the program holds the same data on top of its undo stack).
NoPre == [valid |-> FALSE, tasks |-> <<>>, dependencies |-> <<>>, redo_len |-> 0]

\* What a frame with Ctrl+Z or Ctrl+Y started from, the input of the frame
\* before it and the length of the redo stack that frame's push found
\* (bookkeeping for the properties).
NoWas == [valid |-> FALSE, op |-> "init", tasks |-> <<>>, dependencies |-> <<>>,
          redo_len |-> 0]
\* no dragged() branch ran in the frame
NoPointer == <<>>

\* UndoHistory::push: the current state onto the undo stack, redo cleared.
HistoryPush(a) ==
  [a EXCEPT !.undo_stack = Trim(Append(a.undo_stack, Snap(a))),
            !.redo_stack = <<>>,
            !.pre = [valid |-> TRUE, tasks |-> a.tasks,
                     dependencies |-> a.dependencies,
                     redo_len |-> Len(a.redo_stack)]]

\* UndoHistory::clear
HistoryClear(a) == [a EXCEPT !.undo_stack = <<>>, !.redo_stack = <<>>]

Last(st) == st[Len(st)]
Front(st) == SubSeq(st, 1, Len(st) - 1)

\* undo that clears the selection and reports whether or not a snapshot came
UndoUnguarded(a) ==
  IF a.undo_stack = <<>>
  THEN [a EXCEPT !.selected_task = NoId, !.status_message = "Undo"]
  ELSE LET snap == Last(a.undo_stack)
       IN [a EXCEPT
             !.undo_stack = Front(a.undo_stack),
             !.redo_stack = Trim(Append(a.redo_stack, Snap(a))),
             !.tasks = SortTasksGrouped(RecalculateParentDates(snap.tasks)),
             !.dependencies = snap.dependencies,
             !.selected_task = NoId,
             !.status_message = "Undo"]

\* GanttApp::undo, with UndoHistory::undo
Undo(a) ==
  IF a.undo_stack = <<>> THEN a
  ELSE LET snap == Last(a.undo_stack)
       IN [a EXCEPT
             !.undo_stack = Front(a.undo_stack),
             !.redo_stack = Trim(Append(a.redo_stack, Snap(a))),
             !.tasks = SortTasksGrouped(RecalculateParentDates(snap.tasks)),
             !.dependencies = snap.dependencies,
             !.selected_task = NoId,
             !.status_message = "Undo"]

\* GanttApp::redo, with UndoHistory::redo
Redo(a) ==
  IF a.redo_stack = <<>> THEN a
  ELSE LET snap == Last(a.redo_stack)
       IN [a EXCEPT
             !.redo_stack = Front(a.redo_stack),
             !.undo_stack = Trim(Append(a.undo_stack, Snap(a))),
             !.tasks = SortTasksGrouped(RecalculateParentDates(snap.tasks)),
             !.dependencies = snap.dependencies,
             !.selected_task = NoId,
             !.status_message = "Redo"]

\* --------------------------------------------------------- task operations
\* GanttApp::create_task_from_dialog
CreateTaskFromDialog(a, start_date, end_date, is_milestone) ==
  LET end == IF end_date >= start_date THEN end_date
             ELSE start_date + DialogDays
      task == IF is_milestone THEN NewMilestone(a.next_id, start_date)
              ELSE NewTask(a.next_id, start_date, end)
      pushed == HistoryPush(a)
  IN [pushed EXCEPT
        !.tasks = SortTasksGrouped(Append(a.tasks, task)),
        !.next_id = a.next_id + 1,
        !.status_message = "Task added"]

InsertAt(s, pos, x) == SubSeq(s, 1, pos - 1) \o <<x>> \o SubSeq(s, pos, Len(s))

\* GanttApp::add_subtask
AddSubtask(a, parent_id) ==
  IF parent_id \notin TaskIds(a.tasks) THEN a
  ELSE LET parent == TaskById(a.tasks, parent_id)
           start == Max2(parent.start, Today)
           end == Max2(parent.end, start + SubtaskDays)
           t == [NewTask(a.next_id, start, end) EXCEPT !.parent_id = parent_id]
           pushed == HistoryPush(a)
           \* rposition: the last task that is the parent or one of its children
           last == SetMax({i \in 1..Len(a.tasks) :
                             a.tasks[i].parent_id = parent_id
                             \/ a.tasks[i].id = parent_id})
       IN [pushed EXCEPT
             !.tasks = RecalculateParentDates(InsertAt(a.tasks, last + 1, t)),
             !.next_id = a.next_id + 1,
             !.selected_task = t.id,
             !.status_message = "Added subtask"]

\* delete_task with the dependencies of the children left in place
DeleteTaskKeepChildDeps(a, id) ==
  LET pushed == HistoryPush(a)
      children_ids == IF id \in TaskIds(a.tasks) THEN ChildrenIds(a.tasks, id)
                      ELSE {}
      KeepTask(t) == t.id # id /\ t.parent_id # id
      KeepDep(d) == d.from_task # id /\ d.to_task # id
  IN [pushed EXCEPT
        !.tasks = RecalculateParentDates(SelectSeq(a.tasks, KeepTask)),
        !.dependencies = SelectSeq(a.dependencies, KeepDep),
        !.selected_task = IF a.selected_task = id
                             \/ a.selected_task \in children_ids
                          THEN NoId ELSE a.selected_task,
        !.status_message = "Task deleted"]

\* GanttApp::delete_task
DeleteTask(a, id) ==
  LET pushed == HistoryPush(a)
      children_ids == IF id \in TaskIds(a.tasks) THEN ChildrenIds(a.tasks, id)
                      ELSE {}
      KeepTask(t) == t.id # id /\ t.parent_id # id
      KeepDep(d) == /\ d.from_task # id
                    /\ d.to_task # id
                    /\ d.from_task \notin children_ids
                    /\ d.to_task \notin children_ids
  IN [pushed EXCEPT
        !.tasks = RecalculateParentDates(SelectSeq(a.tasks, KeepTask)),
        !.dependencies = SelectSeq(a.dependencies, KeepDep),
        !.selected_task = IF a.selected_task = id
                             \/ a.selected_task \in children_ids
                          THEN NoId ELSE a.selected_task,
        !.status_message = "Task deleted"]

DepExists(deps, from, to) ==
  \E i \in 1..Len(deps) : deps[i].from_task = from /\ deps[i].to_task = to

\* a new dependency added without the look for its pair
AddDependencyUnchecked(a, dep) ==
  [HistoryPush(a) EXCEPT
     !.dependencies = Append(a.dependencies, dep),
     !.status_message = "Linked"]

\* GanttApp::update: a new dependency is added unless the pair exists
AddDependency(a, dep) ==
  IF DepExists(a.dependencies, dep.from_task, dep.to_task) THEN a
  ELSE [HistoryPush(a) EXCEPT
          !.dependencies = Append(a.dependencies, dep),
          !.status_message = "Linked"]

\* the removal with the redo stack left as it was before the push
RemoveDependencyKeepRedo(a, from, to) ==
  LET Keep(d) == ~(d.from_task = from /\ d.to_task = to)
  IN [HistoryPush(a) EXCEPT
        !.dependencies = SelectSeq(a.dependencies, Keep),
        !.redo_stack = a.redo_stack,
        !.status_message = "Dependency removed"]

\* GanttApp::update: dependency removal (editor or chart arrow)
RemoveDependency(a, from, to) ==
  LET Keep(d) == ~(d.from_task = from /\ d.to_task = to)
  IN [HistoryPush(a) EXCEPT
        !.dependencies = SelectSeq(a.dependencies, Keep),
        !.status_message = "Dependency removed"]

NoDep == [from_task |-> NoId, to_task |-> NoId, kind |-> "FinishToStart"]

\* GanttApp::update: the requests the editor left in the previous frame
ApplyPending(a) ==
  LET a1 == IF a.pending_add_subtask # NoId
            THEN AddSubtask([a EXCEPT !.pending_add_subtask = NoId],
                            a.pending_add_subtask)
            ELSE a
  IN IF a1.pending_add_dependency # NoDep
     THEN AddDependency([a1 EXCEPT !.pending_add_dependency = NoDep],
                        a1.pending_add_dependency)
     ELSE a1

\* GanttApp::update: Ctrl+Z / Ctrl+Y, then the pending requests
FrameStart(a, key) ==
  LET a0 == [a EXCEPT !.pre = NoPre,
                      !.pointer = NoPointer,
                      !.was = IF key = "none" THEN NoWas
                              ELSE [valid |-> TRUE, op |-> a.op,
                                    tasks |-> a.tasks,
                                    dependencies |-> a.dependencies,
                                    redo_len |-> a.pre.redo_len]]
      a1 == IF key = "undo" THEN Undo(a0)
            ELSE IF key = "redo" THEN Redo(a0)
            ELSE a0
  IN ApplyPending(a1)

\* ------------------------------------------------------------------- chart
\* TimelineViewport::date_to_x, the viewport starting at day 0
DateToX(date) == date * PixelsPerDay

\* the days of a pointer travel with the fraction of a day cut off
DragDaysTruncated(delta_x) ==
  LET q == Abs(delta_x) \div PixelsPerDay
  IN IF delta_x < 0 THEN -q ELSE q

\* drag_days: f32::round rounds half away from zero
DragDays(delta_x) ==
  LET q == (2 * Abs(delta_x) + PixelsPerDay) \div (2 * PixelsPerDay)
  IN IF delta_x < 0 THEN -q ELSE q

\* the pointer at the middle of visible row vis_i (0-based), origin.y = 0
RowCenterY(vis_i) ==
  HeaderHeight + vis_i * (RowHeight + RowGap) + RowGap + RowHeight \div 2

\* the row under the pointer with no clamp to the rows there are
RowIndexFromPointerYUnclamped(pointer_y, task_count) ==
  IF task_count = 0 THEN -1
  ELSE (pointer_y - (HeaderHeight + RowGap)) \div (RowHeight + RowGap)

\* row_index_from_pointer_y; -1 stands for None
RowIndexFromPointerY(pointer_y, task_count) ==
  IF task_count = 0 THEN -1
  ELSE LET row_top == HeaderHeight + RowGap
           row_span == RowHeight + RowGap
           raw == (pointer_y - row_top) \div row_span
       IN Max2(0, Min2(raw, task_count - 1))

Swap(ts, i, j) == [ts EXCEPT ![i] = ts[j], ![j] = ts[i]]

RECURSIVE SwapForward(_, _, _)
SwapForward(ts, idx, to) ==
  IF idx >= to THEN ts ELSE SwapForward(Swap(ts, idx, idx + 1), idx + 1, to)

RECURSIVE SwapBackward(_, _, _)
SwapBackward(ts, idx, to) ==
  IF idx <= to THEN ts ELSE SwapBackward(Swap(ts, idx - 1, idx), idx - 1, to)

\* the move as one swap of the two rows
MoveTaskBySwappingEnds(ts, from, to) ==
  IF from = to \/ from > Len(ts) \/ to > Len(ts) THEN ts
  ELSE Swap(ts, from, to)

\* move_task_by_swapping, indices 1-based
MoveTaskBySwapping(ts, from, to) ==
  IF from = to \/ from > Len(ts) \/ to > Len(ts) THEN ts
  ELSE IF from < to THEN SwapForward(ts, from, to)
  ELSE SwapBackward(ts, from, to)

\* show_gantt_chart: delta_y.abs() > row_height * 0.45 && delta_y.abs() > delta_x.abs()
IsReorderDrag(delta_x, delta_y) ==
  100 * Abs(delta_y) > 45 * RowHeight /\ Abs(delta_y) > Abs(delta_x)

\* egui's persisted DragSnapshot entries, keyed by drag_id(task id, mode)
NoDrag == [id |-> NoId, role |-> "move", x |-> 0, y |-> 0]
HasSnapshot(store, id, role) == \E s \in store : s.id = id /\ s.role = role
GetSnapshot(store, id, role) == CHOOSE s \in store : s.id = id /\ s.role = role
RemoveSnapshot(store, id, role) == {s \in store : ~(s.id = id /\ s.role = role)}
InsertSnapshot(store, s) == RemoveSnapshot(store, s.id, s.role) \cup {s}

\* The widget of the gesture is drawn this frame: the task is in the list, it
\* is not drawn as a summary bar, and it is a milestone exactly when the
\* handle is the milestone's.
WidgetLive(a, id, role) ==
  /\ id \in TaskIds(a.tasks)
  /\ ~HasChildren(a.tasks, id)
  /\ TaskById(a.tasks, id).is_milestone = (role = "milestone")

\* GanttApp::update after show_gantt_chart: chart_interaction.changed
AfterChartChanged(a) ==
  [a EXCEPT !.tasks = RecalculateParentDates(a.tasks),
            !.status_message = IF a.selected_task \in TaskIds(a.tasks)
                               THEN "Updated" ELSE "Timeline updated"]

\* show_gantt_chart: the vertical reorder of a move or milestone drag
ReorderFrame(a, i, pointer_y) ==
  LET target_vis == RowIndexFromPointerY(pointer_y, Len(a.tasks))
      seen == [a EXCEPT !.seen_v = TRUE]
  IN IF target_vis >= 0 /\ target_vis # i - 1
     THEN AfterChartChanged(
            [seen EXCEPT !.tasks = MoveTaskBySwapping(a.tasks, i, target_vis + 1)])
     ELSE seen

\* show_gantt_chart: response.dragged() && !shift_held of the handle that is
\* being dragged, with the pointer at (x, y)
DragFrame(a, x, y) ==
  LET id == a.dragging.id
      role == a.dragging.role
  IN IF ~WidgetLive(a, id, role) \/ ~HasSnapshot(a.drag_store, id, role) THEN a
     ELSE
     LET i == IndexOf(a.tasks, id)
         task == a.tasks[i]
         snapshot == GetSnapshot(a.drag_store, id, role)
         delta_x == x - snapshot.start_pointer_x
         delta_y == y - snapshot.start_pointer_y
         day_delta == DragDays(delta_x)
         at == [a EXCEPT !.pointer = <<x, y>>]
     IN CASE role = "left" ->
               LET new_start == Min2(snapshot.start + day_delta, snapshot.end)
               IN AfterChartChanged(
                    [at EXCEPT !.tasks[i].start = new_start,
                               !.tasks[i].end = Max2(snapshot.end, new_start)])
          [] role = "right" ->
               AfterChartChanged(
                 [at EXCEPT !.tasks[i].end =
                              Max2(snapshot.end + day_delta, snapshot.start)])
          [] role = "move" ->
               IF IsReorderDrag(delta_x, delta_y) THEN ReorderFrame(at, i, y)
               ELSE AfterChartChanged(
                      [at EXCEPT !.tasks[i].start = snapshot.start + day_delta,
                                 !.tasks[i].end = snapshot.end + day_delta,
                                 !.seen_h = a.seen_h \/ day_delta # 0])
          [] OTHER ->
               IF IsReorderDrag(delta_x, delta_y) THEN ReorderFrame(at, i, y)
               ELSE AfterChartChanged(
                      [at EXCEPT !.tasks[i].start = snapshot.start + day_delta,
                                 !.tasks[i].end = snapshot.start + day_delta,
                                 !.selected_task = id,
                                 !.seen_h = a.seen_h \/ day_delta # 0])

\* the running gesture's frame, when a handle is held
Held(a, x, y) == IF a.dragging = NoDrag THEN a ELSE DragFrame(a, x, y)

\* where the pointer goes down: on the right edge of the bar for the right
\* handle, on its left edge for the others
PressX(task, role) ==
  IF role = "right" THEN DateToX(task.end) ELSE DateToX(task.start)

\* the start of a drag that leaves the selection to the dragged() branch
DragStartKeepSelection(a, id, role) ==
  LET i == IndexOf(a.tasks, id)
      task == a.tasks[i]
      x == PressX(task, role)
      y == RowCenterY(i - 1)
      snapshot == [id |-> id, role |-> role, start |-> task.start,
                   end |-> task.end, start_pointer_x |-> x,
                   start_pointer_y |-> y]
      started == [a EXCEPT
                    !.drag_store = InsertSnapshot(a.drag_store, snapshot),
                    !.dragging = [id |-> id, role |-> role, x |-> x, y |-> y],
                    !.seen_h = FALSE,
                    !.seen_v = FALSE]
  IN DragFrame(started, x, y)

\* show_gantt_chart: response.drag_started() && !shift_held on a handle, and
\* the same frame's dragged()
DragStart(a, id, role) ==
  LET i == IndexOf(a.tasks, id)
      task == a.tasks[i]
      x == PressX(task, role)
      y == RowCenterY(i - 1)
      snapshot == [id |-> id, role |-> role, start |-> task.start,
                   end |-> task.end, start_pointer_x |-> x,
                   start_pointer_y |-> y]
      started == [a EXCEPT
                    !.drag_store = InsertSnapshot(a.drag_store, snapshot),
                    !.dragging = [id |-> id, role |-> role, x |-> x, y |-> y],
                    !.selected_task = IF role = "milestone" THEN a.selected_task
                                      ELSE id,
                    !.seen_h = FALSE,
                    !.seen_v = FALSE]
  IN DragFrame(started, x, y)

\* show_gantt_chart: response.drag_stopped()
DragStop(a) ==
  LET id == a.dragging.id
      role == a.dragging.role
  IN [a EXCEPT
        !.drag_store = IF WidgetLive(a, id, role)
                       THEN RemoveSnapshot(a.drag_store, id, role)
                       ELSE a.drag_store,
        !.dragging = NoDrag]

\* show_gantt_chart: Shift held and the primary button pressed over a bar
LinkStart(a, id) ==
  [a EXCEPT !.link_drag = id,
            !.selected_task =
               IF ~HasChildren(a.tasks, id) /\ ~TaskById(a.tasks, id).is_milestone
               THEN id ELSE a.selected_task]

\* the release with the new dependency running from the target to the origin
LinkReleaseReversed(a, target) ==
  LET cleared == [a EXCEPT !.link_drag = NoId]
  IN IF target # NoId /\ target # a.link_drag
     THEN AddDependency(cleared, [from_task |-> target, to_task |-> a.link_drag,
                                  kind |-> "FinishToStart"])
     ELSE cleared

\* the release with the bar of the origin taken as a target like any other
LinkReleaseAnyTarget(a, target) ==
  LET cleared == [a EXCEPT !.link_drag = NoId]
  IN IF target # NoId
     THEN AddDependency(cleared, [from_task |-> a.link_drag, to_task |-> target,
                                  kind |-> "FinishToStart"])
     ELSE cleared

\* show_gantt_chart and GanttApp::update: the primary button released during
\* a link drag, over the bar of target (NoId: over no bar)
LinkRelease(a, target) ==
  LET cleared == [a EXCEPT !.link_drag = NoId]
  IN IF target # NoId /\ target # a.link_drag
     THEN AddDependency(cleared, [from_task |-> a.link_drag, to_task |-> target,
                                  kind |-> "FinishToStart"])
     ELSE cleared

\* ------------------------------------------------------------------ editor
\* show_task_editor: the tasks the parent combo offers
ParentCandidates(ts, task_id) ==
  {ts[i].id : i \in {k \in 1..Len(ts) :
                        /\ ts[k].id # task_id
                        /\ ts[k].parent_id # task_id
                        /\ ts[k].parent_id = NoId}}

\* show_task_editor: the tasks the dependency picker offers
DependencyCandidates(ts, deps, task_id) ==
  LET me == TaskById(ts, task_id)
      linked == {deps[i].to_task : i \in {k \in 1..Len(deps) : deps[k].from_task = task_id}}
                \cup {deps[i].from_task : i \in {k \in 1..Len(deps) : deps[k].to_task = task_id}}
  IN {ts[i].id : i \in {k \in 1..Len(ts) :
                          /\ ts[k].id # task_id
                          /\ ts[k].id \notin linked
                          /\ ~HasChildren(ts, ts[k].id)
                          /\ IF me.parent_id # NoId
                             THEN ts[k].parent_id = me.parent_id
                             ELSE ts[k].parent_id = NoId}}

\* GanttApp::update: if editor_changed
AfterEditorChanged(a) ==
  [a EXCEPT !.tasks = RecalculateParentDates(a.tasks),
            !.status_message = "Task updated"]

\* show_task_editor: the parent combo
EditorSetParent(a, parent_id) ==
  LET i == IndexOf(a.tasks, a.selected_task)
  IN AfterEditorChanged([a EXCEPT !.tasks[i].parent_id = parent_id])

\* show_task_editor: the start date picker
EditorSetStart(a, date) ==
  LET i == IndexOf(a.tasks, a.selected_task)
  IN AfterEditorChanged(
       [a EXCEPT !.tasks[i].start = date,
                 !.tasks[i].end = IF date > a.tasks[i].end THEN date
                                  ELSE a.tasks[i].end])

\* show_task_editor: the end date picker
EditorSetEnd(a, date) ==
  LET i == IndexOf(a.tasks, a.selected_task)
  IN AfterEditorChanged(
       [a EXCEPT !.tasks[i].end = date,
                 !.tasks[i].start = IF date < a.tasks[i].start THEN date
                                    ELSE a.tasks[i].start])

\* show_task_editor: the milestone's single date picker
EditorSetMilestoneDate(a, date) ==
  LET i == IndexOf(a.tasks, a.selected_task)
  IN AfterEditorChanged([a EXCEPT !.tasks[i].start = date, !.tasks[i].end = date])

\* show_task_editor: the milestone checkbox
EditorToggleMilestone(a) ==
  LET i == IndexOf(a.tasks, a.selected_task)
      on == ~a.tasks[i].is_milestone
  IN AfterEditorChanged(
       [a EXCEPT !.tasks[i].is_milestone = on,
                 !.tasks[i].end = IF on THEN a.tasks[i].start ELSE a.tasks[i].end])

\* ----------------------------------------------------------------- files
\* GanttApp::new_project
NewProject(a) ==
  [HistoryClear(a) EXCEPT !.tasks = <<>>,
                          !.dependencies = <<>>,
                          !.selected_task = NoId,
                          !.status_message = "New project created"]

\* GanttApp::open_project, the file picked and read: a project, or an error
OpenProject(a, file) ==
  IF file.ok
  THEN [HistoryClear(a) EXCEPT !.tasks = file.tasks,
                               !.dependencies = file.dependencies,
                               !.status_message = "Project loaded"]
  ELSE [a EXCEPT !.status_message = "Error loading"]

\* GanttApp::import_csv, the replacement confirmed and the file picked and
\* read: rows (start, end) that become tasks with new ids, or an error
ImportCsv(a, csv) ==
  IF csv.ok
  THEN [a EXCEPT !.tasks = [i \in 1..Len(csv.rows) |->
                              NewTask(a.next_id + i - 1, csv.rows[i][1],
                                      Max2(csv.rows[i][2], csv.rows[i][1]))],
                 !.dependencies = <<>>,
                 !.next_id = a.next_id + Len(csv.rows),
                 !.selected_task = NoId,
                 !.status_message = "Imported"]
  ELSE [a EXCEPT !.status_message = "CSV import failed"]

\* ------------------------------------------------------------------ zoom
\* zoom_in without the upper limit
zoom_in_unlimited(ppd) == (ppd * 12) \div 10

\* TimelineViewport::zoom_in
zoom_in(ppd) == Min2((ppd * 12) \div 10, MaxPixelsPerDay * PpdUnit)

\* TimelineViewport::zoom_out
zoom_out(ppd) == Max2((ppd * 10) \div 12, MinPixelsPerDay * PpdUnit)

\* ---------------------------------------------------------------- arrows
\* Coordinates are whole numbers of PxUnit-ths of a pixel; a halving is exact
\* for the coordinates the arrows are drawn with.
Pos2(x, y) == [x |-> x, y |-> y]

\* dependency_endpoints
DependencyEndpoints(from_rect, to_rect, kind) ==
  LET start_x == IF kind \in {"FinishToStart", "FinishToFinish"}
                 THEN from_rect.right ELSE from_rect.left
      end_x == IF kind \in {"FinishToStart", "StartToStart"}
               THEN to_rect.left ELSE to_rect.right
  IN << Pos2(start_x, (from_rect.top + from_rect.bottom) \div 2),
        Pos2(end_x, (to_rect.top + to_rect.bottom) \div 2) >>

\* (from.y - to.y).abs() < 1.0
SameRow(from, to) == Abs(from.y - to.y) < PxUnit

\* the backtrack path: out by the stub, to via_y, along it, and in by the stub
Around(from, to, exit_x, enter_x, via_y) ==
  << from, Pos2(exit_x, from.y), Pos2(exit_x, via_y), Pos2(enter_x, via_y),
     Pos2(enter_x, to.y), to >>

\* the path by a vertical lane
Lane(from, to, lane_x) ==
  IF SameRow(from, to) THEN << from, Pos2(lane_x, from.y), to >>
  ELSE << from, Pos2(lane_x, from.y), Pos2(lane_x, to.y), to >>

\* the FinishToStart route that takes the forward path wherever the bars are
FinishToStartForward(from, to) ==
  LET exit_x == from.x + Stub * PxUnit
  IN IF SameRow(from, to) THEN << from, to >>
     ELSE << from, Pos2(exit_x, from.y), Pos2(exit_x, to.y), to >>

\* dependency_route_points: DependencyKind::FinishToStart
FinishToStartRoute(from, to) ==
  LET exit_x == from.x + Stub * PxUnit
      enter_x == to.x - Stub * PxUnit
  IN IF exit_x <= enter_x
     THEN IF SameRow(from, to) THEN << from, to >>
          ELSE << from, Pos2(exit_x, from.y), Pos2(exit_x, to.y), to >>
     ELSE IF SameRow(from, to)
          THEN Around(from, to, exit_x, enter_x, from.y + LoopDrop * PxUnit)
          ELSE Around(from, to, exit_x, enter_x, (from.y + to.y) \div 2)

\* dependency_route_points: DependencyKind::StartToStart
StartToStartRoute(from, to) ==
  Lane(from, to, Max2(Min2(from.x, to.x) - Stub * PxUnit, LaneMin * PxUnit))

\* dependency_route_points: DependencyKind::FinishToFinish
FinishToFinishRoute(from, to) ==
  Lane(from, to, Max2(from.x, to.x) + Stub * PxUnit)

\* dependency_route_points: DependencyKind::StartToFinish
StartToFinishRoute(from, to) ==
  LET exit_x == from.x - Stub * PxUnit
      enter_x == to.x + Stub * PxUnit
      mid_x == to.x + (from.x - to.x) \div 2
  IN IF exit_x >= enter_x
     THEN IF SameRow(from, to) THEN << from, to >>
          ELSE << from, Pos2(mid_x, from.y), Pos2(mid_x, to.y), to >>
     ELSE IF SameRow(from, to)
          THEN Around(from, to, exit_x, enter_x, from.y + LoopDrop * PxUnit)
          ELSE Around(from, to, exit_x, enter_x, (from.y + to.y) \div 2)

\* dependency_route_points
DependencyRoutePoints(from, to, kind) ==
  CASE kind = "FinishToStart" -> FinishToStartRoute(from, to)
    [] kind = "StartToStart" -> StartToStartRoute(from, to)
    [] kind = "FinishToFinish" -> FinishToFinishRoute(from, to)
    [] OTHER -> StartToFinishRoute(from, to)

\* no arrow is being drawn
NoArrow == [from_rect |-> <<>>, to_rect |-> <<>>, kind |-> "FinishToStart",
            route |-> <<>>]

\* ------------------------------------------------------------------- state
VARIABLES
  tasks,                  \* project.tasks
  dependencies,           \* project.dependencies
  undo_stack,             \* undo_history, oldest first
  redo_stack,
  selected_task,          \* NoId: None
  status_message,
  pending_add_subtask,    \* NoId: None
  pending_add_dependency, \* NoDep: None
  next_id,                \* the next id Uuid::new_v4 hands out
  drag_store,             \* egui memory: the DragSnapshot entries
  dragging,               \* egui: the handle being dragged, and where it was pressed
  link_drag,              \* egui memory: LinkDragState.from_task, NoId: none
  frames_left,            \* the frames the run still has
  seen_h,                 \* the running gesture had a frame move the dates
  seen_v,                 \* the running gesture had a frame applied as a reorder
  pre,                    \* what the last push of the last frame saw
  op,                     \* the input of the last frame
  op_id,                  \* the task that input named, NoId: none
  op_from,                \* the task a link drag released by it began on
  was,                    \* what the last frame, an undo or redo, started from
  pointer,                \* where the dragged() branch of the last frame saw the pointer
  pixels_per_day,         \* viewport.pixels_per_day, in PpdUnit-ths of a pixel
  arrow                   \* the dependency arrow being drawn: the two bars' rects,
                          \* the kind, and the route once it is computed

vars == <<tasks, dependencies, undo_stack, redo_stack, selected_task,
          status_message, pending_add_subtask, pending_add_dependency, next_id,
          drag_store, dragging, link_drag, frames_left, seen_h, seen_v, pre, op,
          op_id, op_from, was, pointer, pixels_per_day, arrow>>

App ==
  [tasks |-> tasks, dependencies |-> dependencies, undo_stack |-> undo_stack,
   redo_stack |-> redo_stack, selected_task |-> selected_task,
   status_message |-> status_message,
   pending_add_subtask |-> pending_add_subtask,
   pending_add_dependency |-> pending_add_dependency, next_id |-> next_id,
   drag_store |-> drag_store, dragging |-> dragging, link_drag |-> link_drag,
   seen_h |-> seen_h, seen_v |-> seen_v, pre |-> pre, was |-> was,
   op |-> op, pointer |-> pointer, pixels_per_day |-> pixels_per_day,
   arrow |-> arrow]

InstallLink(a, input, id, from) ==
  /\ frames_left > 0
  /\ frames_left' = frames_left - 1
  /\ tasks' = a.tasks
  /\ dependencies' = a.dependencies
  /\ undo_stack' = a.undo_stack
  /\ redo_stack' = a.redo_stack
  /\ selected_task' = a.selected_task
  /\ status_message' = a.status_message
  /\ pending_add_subtask' = a.pending_add_subtask
  /\ pending_add_dependency' = a.pending_add_dependency
  /\ next_id' = a.next_id
  /\ drag_store' = a.drag_store
  /\ dragging' = a.dragging
  /\ link_drag' = a.link_drag
  /\ seen_h' = a.seen_h
  /\ seen_v' = a.seen_v
  /\ pre' = a.pre
  /\ was' = a.was
  /\ pointer' = a.pointer
  /\ pixels_per_day' = a.pixels_per_day
  /\ arrow' = a.arrow
  /\ op' = input
  /\ op_id' = id
  /\ op_from' = from

InstallOn(a, input, id) == InstallLink(a, input, id, NoId)
Install(a, input) == InstallOn(a, input, NoId)

\* GanttApp::sample_project, reduced to one phase with one subtask, and the
\* top-level milestone its subtask leads to
SampleTasks ==
  RecalculateParentDates(
    << NewTask(1, 0, 0),
       [NewTask(2, 0, 1) EXCEPT !.parent_id = 1],
       NewMilestone(3, 2) >>)

SampleDependencies ==
  << [from_task |-> 2, to_task |-> 3, kind |-> "FinishToStart"] >>

\* GanttApp::new, with the frames the run is given and the arrows it may be
\* about to draw
StartDrawing(n, arrows) ==
  /\ arrow \in arrows
  /\ tasks = SampleTasks
  /\ dependencies = SampleDependencies
  /\ undo_stack = <<>>
  /\ redo_stack = <<>>
  /\ selected_task = NoId
  /\ status_message = "Ready"
  /\ pending_add_subtask = NoId
  /\ pending_add_dependency = NoDep
  /\ next_id = 4
  /\ drag_store = {}
  /\ dragging = NoDrag
  /\ link_drag = NoId
  /\ frames_left = n
  /\ seen_h = FALSE
  /\ seen_v = FALSE
  /\ pre = NoPre
  /\ op = "init"
  /\ op_id = NoId
  /\ op_from = NoId
  /\ was = NoWas
  /\ pointer = NoPointer
  /\ pixels_per_day = PixelsPerDay * PpdUnit

Start(n) == StartDrawing(n, {NoArrow})

Init == Start(MaxFrames)

\* ------------------------------------------------------------------ inputs
\* what the dialog's date pickers and checkbox hold when Create is clicked
DialogInputs == { <<1, 3, FALSE>>, <<2, 1, FALSE>>, <<2, 2, TRUE>> }
\* the dates picked in the editor
EditorDates == {1, 4}
\* the kinds picked in the editor's dependency picker
EditorKinds == {"FinishToStart", "StartToStart"}
\* the files Open is given: the sample project as it was saved, a project of
\* one task that the running project never held, and a file that does not
\* parse
ProjectFiles ==
  { [ok |-> TRUE, tasks |-> SampleTasks, dependencies |-> SampleDependencies],
    [ok |-> TRUE, tasks |-> << NewTask(OtherId, 0, 2) >>, dependencies |-> <<>>],
    [ok |-> FALSE, tasks |-> <<>>, dependencies |-> <<>>] }
\* the files Import CSV is given: one row, and a file that does not parse
CsvFiles ==
  { [ok |-> TRUE, rows |-> << <<0, 2>> >>], [ok |-> FALSE, rows |-> <<>>] }
\* horizontal pointer travel since the press, in pixels: a day to the left,
\* just over half a day and three days to the right
DragDX == {-PixelsPerDay, PixelsPerDay \div 2 + 1, 3 * PixelsPerDay}

\* The pointer positions of a frame while a handle pressed at (x, y) is held:
\* moved sideways on the row of the press, or at the height of the middle of
\* a row, of the row there would be above the first, or of the one below the
\* last.
PointerPositions(a) ==
  {<<a.dragging.x + dx, a.dragging.y>> : dx \in DragDX}
  \cup {<<a.dragging.x, RowCenterY(r)>> : r \in (-1)..Len(a.tasks)}
  \cup {<<a.dragging.x, a.dragging.y>>}

Idle == dragging = NoDrag /\ link_drag = NoId
Running == frames_left > 0

\* ------------------------------------------------------------------ frames
\* Ctrl+Z; a held handle keeps receiving its drag frame
KeyUndo ==
  /\ Running
  /\ LET a == FrameStart(App, "undo")
     IN IF dragging = NoDrag THEN Install(a, "undo")
        ELSE \E p \in PointerPositions(a) :
               Install(DragFrame(a, p[1], p[2]), "undo")

\* Ctrl+Y
KeyRedo ==
  /\ Running
  /\ LET a == FrameStart(App, "redo")
     IN IF dragging = NoDrag THEN Install(a, "redo")
        ELSE \E p \in PointerPositions(a) :
               Install(DragFrame(a, p[1], p[2]), "redo")

\* Create clicked in the Add Task dialog
DialogCreate ==
  /\ Running
  /\ Idle
  /\ \E inp \in DialogInputs :
       Install(CreateTaskFromDialog(FrameStart(App, "none"), inp[1], inp[2], inp[3]),
               "create_task")

\* a row of the task table clicked, or a bar of the chart
Select ==
  /\ Running
  /\ Idle
  /\ LET a == FrameStart(App, "none")
     IN \E id \in TaskIds(a.tasks) :
          Install([a EXCEPT !.selected_task = id], "select")

\* the chart's background clicked
ClearSelection ==
  /\ Running
  /\ Idle
  /\ selected_task # NoId
  /\ Install([FrameStart(App, "none") EXCEPT !.selected_task = NoId], "deselect")

\* Delete in the task table, or in a bar's context menu
Delete ==
  /\ Running
  /\ Idle
  /\ LET a == FrameStart(App, "none")
     IN \E id \in TaskIds(a.tasks) : InstallOn(DeleteTask(a, id), "delete_task", id)

\* Add Subtask in a bar's context menu: any summary bar, and the bars and
\* milestones that are no one's child
ChartAddSubtask ==
  /\ Running
  /\ Idle
  /\ LET a == FrameStart(App, "none")
     IN \E id \in TaskIds(a.tasks) :
          /\ HasChildren(a.tasks, id) \/ TaskById(a.tasks, id).parent_id = NoId
          /\ InstallOn(AddSubtask(a, id), "add_subtask", id)

\* a dependency arrow right-clicked in the chart
ChartRemoveDependency ==
  /\ Running
  /\ Idle
  /\ LET a == FrameStart(App, "none")
     IN \E k \in 1..Len(a.dependencies) :
          /\ a.dependencies[k].from_task \in TaskIds(a.tasks)
          /\ a.dependencies[k].to_task \in TaskIds(a.tasks)
          /\ Install(RemoveDependency(a, a.dependencies[k].from_task,
                                      a.dependencies[k].to_task),
                     "remove_dependency")

\* The editor is shown for the selected task when it is in the list.
EditorShown(a) == a.selected_task \in TaskIds(a.tasks)

\* the editor's parent combo: "None" or one of the candidates
EditParent ==
  /\ Running
  /\ Idle
  /\ LET a == FrameStart(App, "none")
     IN /\ EditorShown(a)
        /\ \E p \in ParentCandidates(a.tasks, a.selected_task) \cup {NoId} :
             Install(EditorSetParent(a, p), "edit_parent")

\* the editor's date pickers: start and end of a task without children, the
\* single date of a milestone without children
EditDates ==
  /\ Running
  /\ Idle
  /\ LET a == FrameStart(App, "none")
     IN /\ EditorShown(a)
        /\ ~HasChildren(a.tasks, a.selected_task)
        /\ \E d \in EditorDates :
             IF TaskById(a.tasks, a.selected_task).is_milestone
             THEN Install(EditorSetMilestoneDate(a, d), "edit_date")
             ELSE \/ Install(EditorSetStart(a, d), "edit_date")
                  \/ Install(EditorSetEnd(a, d), "edit_date")

\* the editor's milestone checkbox
EditMilestone ==
  /\ Running
  /\ Idle
  /\ LET a == FrameStart(App, "none")
     IN /\ EditorShown(a)
        /\ Install(EditorToggleMilestone(a), "edit_milestone")

\* the editor's Add Subtask button, shown for a task with children; the
\* request waits for the next frame
EditorAddSubtask ==
  /\ Running
  /\ Idle
  /\ LET a == FrameStart(App, "none")
     IN /\ EditorShown(a)
        /\ HasChildren(a.tasks, a.selected_task)
        /\ Install([a EXCEPT !.pending_add_subtask = a.selected_task],
                   "request_subtask")

\* the editor's dependency picker; the request waits for the next frame
EditorAddDependency ==
  /\ Running
  /\ Idle
  /\ LET a == FrameStart(App, "none")
     IN /\ EditorShown(a)
        /\ \E target \in DependencyCandidates(a.tasks, a.dependencies, a.selected_task),
              kind \in EditorKinds :
             Install([a EXCEPT !.pending_add_dependency =
                                 [from_task |-> a.selected_task,
                                  to_task |-> target, kind |-> kind]],
                     "request_dependency")

\* the x of a dependency row in the editor
EditorRemoveDependency ==
  /\ Running
  /\ Idle
  /\ LET a == FrameStart(App, "none")
     IN /\ EditorShown(a)
        /\ \E k \in 1..Len(a.dependencies) :
             /\ \/ a.dependencies[k].from_task = a.selected_task
                \/ a.dependencies[k].to_task = a.selected_task
             /\ Install(RemoveDependency(a, a.dependencies[k].from_task,
                                         a.dependencies[k].to_task),
                        "remove_dependency")

\* a handle pressed and the drag begun
DragPress ==
  /\ Running
  /\ Idle
  /\ LET a == FrameStart(App, "none")
     IN \E id \in TaskIds(a.tasks), role \in Roles :
          /\ WidgetLive(a, id, role)
          /\ Install(DragStart(a, id, role), "drag_start")

\* a frame with the handle held
DragMove ==
  /\ Running
  /\ dragging # NoDrag
  /\ LET a == FrameStart(App, "none")
     IN \E p \in PointerPositions(a) : Install(DragFrame(a, p[1], p[2]), "drag")

\* the handle released
DragRelease ==
  /\ Running
  /\ dragging # NoDrag
  /\ Install(DragStop(FrameStart(App, "none")), "drag_stop")

\* View > Zoom In, or Ctrl and the wheel turned up over the chart
ZoomIn ==
  /\ Running
  /\ LET a == FrameStart(App, "none")
     IN Install([a EXCEPT !.pixels_per_day = zoom_in(a.pixels_per_day)], "zoom_in")

\* View > Zoom Out, or Ctrl and the wheel turned down over the chart
ZoomOut ==
  /\ Running
  /\ LET a == FrameStart(App, "none")
     IN Install([a EXCEPT !.pixels_per_day = zoom_out(a.pixels_per_day)], "zoom_out")

\* the arrow of a dependency drawn: its route computed from the two rects
DrawDependency ==
  /\ Running
  /\ arrow # NoArrow
  /\ arrow.route = <<>>
  /\ LET a == FrameStart(App, "none")
         ends == DependencyEndpoints(a.arrow.from_rect, a.arrow.to_rect,
                                     a.arrow.kind)
     IN Install([a EXCEPT !.arrow.route =
                            DependencyRoutePoints(ends[1], ends[2], a.arrow.kind)],
                "draw_dependency")

\* File > New
FileNew ==
  /\ Running
  /\ Idle
  /\ Install(NewProject(FrameStart(App, "none")), "new_project")

\* File > Open
FileOpen ==
  /\ Running
  /\ Idle
  /\ \E file \in ProjectFiles :
       Install(OpenProject(FrameStart(App, "none"), file), "open_project")

\* File > Import CSV
FileImportCsv ==
  /\ Running
  /\ Idle
  /\ \E csv \in CsvFiles :
       Install(ImportCsv(FrameStart(App, "none"), csv), "import_csv")

\* Shift held and a bar pressed
LinkPress ==
  /\ Running
  /\ Idle
  /\ LET a == FrameStart(App, "none")
     IN \E id \in TaskIds(a.tasks) : Install(LinkStart(a, id), "link_start")

\* the button released during a link drag, over a bar or over none
LinkDrop ==
  /\ Running
  /\ link_drag # NoId
  /\ LET a == FrameStart(App, "none")
     IN \E target \in TaskIds(a.tasks) \cup {NoId} :
          InstallLink(LinkRelease(a, target), "link_release", target,
                      a.link_drag)

Next ==
  \/ KeyUndo
  \/ KeyRedo
  \/ DialogCreate
  \/ Select
  \/ ClearSelection
  \/ Delete
  \/ ChartAddSubtask
  \/ ChartRemoveDependency
  \/ EditParent
  \/ EditDates
  \/ EditMilestone
  \/ EditorAddSubtask
  \/ EditorAddDependency
  \/ EditorRemoveDependency
  \/ DragPress
  \/ DragMove
  \/ DragRelease
  \/ LinkPress
  \/ LinkDrop
  \/ FileNew
  \/ FileOpen
  \/ FileImportCsv

Spec == Init /\ [][Next]_vars

\* Longer runs of the frames a drag gesture meets: the handles, the editor's
\* dates, one operation that pushes, and the undo and redo keys.
InitGesture == Start(MaxGestureFrames)

NextGesture ==
  \/ KeyUndo
  \/ KeyRedo
  \/ Select
  \/ ChartRemoveDependency
  \/ EditDates
  \/ DragPress
  \/ DragMove
  \/ DragRelease

SpecGesture == InitGesture /\ [][NextGesture]_vars

\* Longer runs of the frames that build and edit the hierarchy: subtasks, the
\* editor's parent and dates, deletion, and the undo and redo keys.
InitHierarchy == Start(MaxHierarchyFrames)

NextHierarchy ==
  \/ KeyUndo
  \/ KeyRedo
  \/ Select
  \/ Delete
  \/ ChartAddSubtask
  \/ EditParent
  \/ EditDates

SpecHierarchy == InitHierarchy /\ [][NextHierarchy]_vars

\* Longer runs of the frames that make and remove dependencies: the link
\* drag, the editor's picker and list, the arrow's removal, deletion, and the
\* undo and redo keys.
InitDependency == Start(MaxDependencyFrames)

NextDependency ==
  \/ KeyUndo
  \/ KeyRedo
  \/ Select
  \/ Delete
  \/ ChartRemoveDependency
  \/ EditorAddDependency
  \/ EditorRemoveDependency
  \/ LinkPress
  \/ LinkDrop

SpecDependency == InitDependency /\ [][NextDependency]_vars

\* The rects of two bars: the bar the arrow leaves two days wide on the top
\* row, the bar it enters two days wide, starting before it, with it, at
\* its end, half a pixel less than two stubs after its end, exactly two
\* stubs after its end and further; on the same row, half a pixel lower, a
\* row lower and a row higher.
BarWidth == 2 * PixelsPerDay * PxUnit
BarRect(left, top) ==
  [left |-> left, right |-> left + BarWidth, top |-> top,
   bottom |-> top + RowHeight * PxUnit]
FromLefts == {0, 60 * PxUnit}
ToLefts == {-BarWidth, 0, BarWidth,
            BarWidth + 2 * Stub * PxUnit - PxUnit \div 2,
            BarWidth + 2 * Stub * PxUnit, 120 * PxUnit}
ToTops == {0, PxUnit \div 2, (RowHeight + RowGap) * PxUnit,
           -(RowHeight + RowGap) * PxUnit}
DependencyKinds ==
  {"FinishToStart", "StartToStart", "FinishToFinish", "StartToFinish"}
ArrowInputs ==
  {[from_rect |-> BarRect(fl, 0), to_rect |-> BarRect(tl, tt), kind |-> k,
    route |-> <<>>] :
     fl \in FromLefts, tl \in ToLefts, tt \in ToTops, k \in DependencyKinds}

\* One arrow drawn between two bars, for each arrangement of the bars and
\* each kind.
InitRoute == StartDrawing(MaxRouteFrames, ArrowInputs)

NextRoute ==
  \/ DrawDependency

SpecRoute == InitRoute /\ [][NextRoute]_vars

\* Runs of zoom steps alone, long enough to reach both limits from the
\* initial zoom.
InitZoom == Start(MaxZoomFrames)

NextZoom ==
  \/ ZoomIn
  \/ ZoomOut

SpecZoom == InitZoom /\ [][NextZoom]_vars

\* ------------------------------------------------------------------ claims
\* C1: in every reachable state, an undo or redo between two frames of a
\* running drag included, every task has start <= end.
C1_StartNotAfterEnd ==
  \A i \in 1..Len(tasks) : tasks[i].start <= tasks[i].end

\* The frames whose last change to the project is the one a push of that frame
\* announced: the pushing operations, and the frames that carry no change of
\* their own, where a push can only come from a request of the frame before.
PushFrames ==
  {"create_task", "add_subtask", "delete_task", "remove_dependency",
   "link_release", "select", "deselect"}

\* C2: undo round trip: a pushing operation followed by one undo leaves the
\* task sequence and the dependency sequence exactly as they were before the
\* operation, whatever produced that earlier state.
C2_UndoRoundTrip ==
  [][(pre.valid /\ op \in PushFrames /\ op' = "undo")
       => (tasks' = pre.tasks /\ dependencies' = pre.dependencies)]_vars

\* C3: every mutating operation pushes the tasks and dependencies it found:
\* a frame that applies no request of the frame before and is no undo or redo,
\* and changes the tasks or the dependencies, leaves the state it started
\* from on top of the undo stack.
C3_MutationsPush ==
  [][(/\ op' \notin {"undo", "redo"}
      /\ pending_add_subtask = NoId
      /\ pending_add_dependency = NoDep
      /\ (tasks' # tasks \/ dependencies' # dependencies))
       => (/\ undo_stack' # <<>>
           /\ Last(undo_stack') = Snap(App))]_vars

\* C4: within one gesture on a move or milestone handle, frames applied as a
\* date edit and frames applied as a reorder do not both occur.
C4_ClassificationStable == ~(seen_h /\ seen_v)

\* the children of each parent are one run right after the parent
Grouped(ts) ==
  \A i \in 1..Len(ts) :
    ts[i].parent_id # NoId =>
      \E j \in 1..(i - 1) :
        /\ ts[j].id = ts[i].parent_id
        /\ \A k \in (j + 1)..i : ts[k].parent_id = ts[i].parent_id

\* C5: grouped order: in every reachable state the children of each parent
\* occupy one contiguous run that starts right after that parent.
C5_GroupedOrder == Grouped(tasks)

\* C6: single-level hierarchy: in every reachable state every parent_id that
\* is set names a task of the list that has no parent_id itself.
C6_SingleLevel ==
  \A i \in 1..Len(tasks) :
    tasks[i].parent_id # NoId =>
      \E j \in 1..Len(tasks) :
        tasks[j].id = tasks[i].parent_id /\ tasks[j].parent_id = NoId

\* every task with a child spans exactly its children
RolledUp(ts) ==
  \A i \in 1..Len(ts) :
    HasChildren(ts, ts[i].id) =>
      LET c == ChildrenIdx(ts, ts[i].id)
      IN /\ ts[i].start = SetMin({ts[k].start : k \in c})
         /\ ts[i].end = SetMax({ts[k].end : k \in c})

\* the frames after which the rollup is to hold
RollupFrames ==
  {"add_subtask", "delete_task", "drag_start", "drag", "edit_parent",
   "edit_date", "edit_milestone", "undo", "redo"}

\* C7: rollup: at the end of every frame that added a subtask, deleted a task,
\* changed a date by drag, changed a field or the parent in the editor, or
\* ran an undo or redo, every task with a child starts at the least start and
\* ends at the greatest end of its children.
C7_Rollup == op \in RollupFrames => RolledUp(tasks)

\* C8: milestones: in every reachable state every milestone has start = end.
C8_MilestoneZeroLength ==
  \A i \in 1..Len(tasks) :
    tasks[i].is_milestone => tasks[i].start = tasks[i].end

\* the ids of a task sequence, in order
IdsOf(ts) == [i \in 1..Len(ts) |-> ts[i].id]

\* C10: cascade delete: after delete_task(id) the tasks hold neither id nor a
\* task whose parent_id was id, the dependencies hold none that touches id or
\* one of those children, and every other task and dependency is still there.
C10_CascadeDelete ==
  op = "delete_task" =>
    LET gone == {op_id} \cup ChildrenIds(pre.tasks, op_id)
        Stays(t) == t.id \notin gone
        Untouched(d) == d.from_task \notin gone /\ d.to_task \notin gone
    IN /\ pre.valid
       /\ op_id \in TaskIds(pre.tasks)
       /\ IdsOf(tasks) = IdsOf(SelectSeq(pre.tasks, Stays))
       /\ dependencies = SelectSeq(pre.dependencies, Untouched)

\* a deletion that took a child with it, and a dependency of that child, and
\* left another task
C10_Witness ==
  /\ op = "delete_task"
  /\ ChildrenIds(pre.tasks, op_id) # {}
  /\ \E k \in 1..Len(pre.dependencies) :
       pre.dependencies[k].from_task \in ChildrenIds(pre.tasks, op_id)
  /\ Len(dependencies) < Len(pre.dependencies)
  /\ tasks # <<>>

\* C9: no dangling dependency: in every reachable state both ends of every
\* dependency are ids of tasks of the list.
C9_NoDanglingDependency ==
  \A k \in 1..Len(dependencies) :
    /\ dependencies[k].from_task \in TaskIds(tasks)
    /\ dependencies[k].to_task \in TaskIds(tasks)

\* at most one dependency per ordered pair
UniquePairs(deps) ==
  \A i, j \in 1..Len(deps) :
    (deps[i].from_task = deps[j].from_task /\ deps[i].to_task = deps[j].to_task)
      => i = j

\* the frame applies nothing but the dependency request the editor left
OnlyDependencyPending ==
  pending_add_dependency # NoDep /\ pending_add_subtask = NoId

\* C11: dependency uniqueness: the dependencies hold at most one dependency per
\* ordered pair, and a request for a pair that exists (a link drag released
\* over its target, or the editor's request meeting the state this frame's
\* undo or redo installed) changes neither the dependencies nor the undo stack.
C11_DependencyUnique ==
  [][/\ UniquePairs(dependencies)
     /\ UniquePairs(dependencies')
     /\ (/\ op' = "link_release"
         /\ op_id' # NoId
         /\ DepExists(dependencies, link_drag, op_id'))
          => (dependencies' = dependencies /\ undo_stack' = undo_stack)
     /\ (/\ op' = "undo"
         /\ OnlyDependencyPending
         /\ DepExists(Undo(App).dependencies, pending_add_dependency.from_task,
                      pending_add_dependency.to_task))
          => (/\ dependencies' = Undo(App).dependencies
              /\ undo_stack' = Undo(App).undo_stack)
     /\ (/\ op' = "redo"
         /\ OnlyDependencyPending
         /\ DepExists(Redo(App).dependencies, pending_add_dependency.from_task,
                      pending_add_dependency.to_task))
          => (/\ dependencies' = Redo(App).dependencies
              /\ undo_stack' = Redo(App).undo_stack)]_vars

\* a link drag from one task released over another, the pair being there
C11_Witness ==
  /\ op = "link_release"
  /\ op_id # NoId
  /\ op_from # op_id
  /\ DepExists(dependencies, op_from, op_id)
  /\ ~pre.valid

\* the frames that always push, and change the project after the push only
AlwaysPush ==
  {"create_task", "add_subtask", "delete_task", "remove_dependency"}

\* C12: redo round trip: a pushing operation, then an undo, then a redo leave
\* the task sequence and the dependency sequence exactly as they were right
\* after the operation.
C12_RedoRoundTrip ==
  [][(/\ was.valid
      /\ was.op \in AlwaysPush
      /\ op = "undo"
      /\ op' = "redo")
       => (tasks' = was.tasks /\ dependencies' = was.dependencies)]_vars

\* the frame applies no request of the frame before and no handle is held
NothingElse ==
  /\ pending_add_subtask = NoId
  /\ pending_add_dependency = NoDep
  /\ dragging = NoDrag

\* C13: an undo with an empty undo stack and a redo with an empty redo stack
\* leave tasks, dependencies, selection, status message and both stacks alone.
C13_EmptyStackNoOp ==
  [][(/\ NothingElse
      /\ \/ op' = "undo" /\ undo_stack = <<>>
         \/ op' = "redo" /\ redo_stack = <<>>)
       => UNCHANGED <<tasks, dependencies, selected_task, status_message,
                      undo_stack, redo_stack>>]_vars

\* Ctrl+Z with nothing to undo and a task selected
C13_Witness ==
  /\ op = "undo"
  /\ undo_stack = <<>>
  /\ redo_stack = <<>>
  /\ dragging = NoDrag
  /\ selected_task # NoId

\* C14: no self-dependency: no dependency runs from a task to itself; a link
\* drag released over the bar it began on creates nothing; the editor's
\* dependency picker does not offer the edited task.
C14_NoSelfDependency ==
  [][/\ \A k \in 1..Len(dependencies) :
          dependencies[k].from_task # dependencies[k].to_task
     /\ \A k \in 1..Len(dependencies') :
          dependencies'[k].from_task # dependencies'[k].to_task
     /\ (op' = "link_release" /\ op_id' = link_drag)
          => (dependencies' = dependencies /\ undo_stack' = undo_stack)
     /\ selected_task \in TaskIds(tasks)
          => selected_task
               \notin DependencyCandidates(tasks, dependencies, selected_task)]_vars

\* a link drag released over the bar it began on
C14_Witness ==
  /\ op = "link_release"
  /\ op_id # NoId
  /\ op_from = op_id
  /\ ~pre.valid

\* C15: link-drag release: released over the bar of a task B other than the
\* origin A with no dependency (A, B) there, the frame appends exactly the
\* dependency (A, B, FinishToStart); in every other case the dependencies stay
\* as they are; the tasks stay as they are in all cases.
C15_LinkRelease ==
  [][(/\ op' = "link_release"
      /\ pending_add_subtask = NoId
      /\ pending_add_dependency = NoDep)
       => /\ tasks' = tasks
          /\ IF /\ op_id' # NoId
                /\ op_id' # link_drag
                /\ ~DepExists(dependencies, link_drag, op_id')
             THEN dependencies' =
                    Append(dependencies,
                           [from_task |-> link_drag, to_task |-> op_id',
                            kind |-> "FinishToStart"])
             ELSE dependencies' = dependencies]_vars

\* a link drag released over another bar, and the dependency it made
C15_Witness ==
  /\ op = "link_release"
  /\ pre.valid
  /\ op_id # op_from
  /\ Len(dependencies) = Len(pre.dependencies) + 1
  /\ Last(dependencies) =
       [from_task |-> op_from, to_task |-> op_id, kind |-> "FinishToStart"]

\* C16: gesture state is cleared on release: after the frame of the release no
\* snapshot is stored for the handle that was dragged and no link-drag state
\* is stored, also when an undo or redo replaced the tasks during the gesture.
C16_GestureStateCleared ==
  [][/\ op' = "drag_stop"
          => ~HasSnapshot(drag_store', dragging.id, dragging.role)
     /\ op' = "link_release" => link_drag' = NoId]_vars

\* The move handle's dragged() branch ran in the frame that led to the state
\* and applied the pointer as a horizontal move.
HorizontalMoveFrame(store, held, at) ==
  /\ at # NoPointer
  /\ held.role = "move"
  /\ LET snapshot == GetSnapshot(store, held.id, "move")
     IN ~IsReorderDrag(at[1] - snapshot.start_pointer_x,
                       at[2] - snapshot.start_pointer_y)

ChartGestures == {"drag_start", "drag", "drag_stop", "link_start", "link_release"}

\* The step is the frame of a chart gesture, of a dependency removed or of a
\* dependency requested in the editor and added, and of nothing else.
GestureOrDependencyFrame ==
  /\ pending_add_subtask = NoId
  /\ \/ op' \in ChartGestures /\ pending_add_dependency = NoDep
     \/ op' = "remove_dependency" /\ pending_add_dependency = NoDep
     \/ op' \in {"select", "deselect"} /\ pending_add_dependency # NoDep

SameDates(t, u) == t.start = u.start /\ t.end = u.end

\* C18: dependencies are advisory: a frame of a chart gesture and a frame that
\* adds or removes a dependency leave the start and end of every task as they
\* were, but for the task whose handle is dragged and for that task's parent.
C18_DependenciesAdvisory ==
  [][GestureOrDependencyFrame =>
       /\ TaskIds(tasks') = TaskIds(tasks)
       /\ \A id \in TaskIds(tasks) :
            \/ id = dragging'.id
            \/ dragging'.id \in TaskIds(tasks')
                 /\ id = TaskById(tasks', dragging'.id).parent_id
            \/ SameDates(TaskById(tasks', id), TaskById(tasks, id))]_vars

\* a drag frame moved the task of the held handle to end after the start of a
\* task that depends on it finish-to-start, and that task is where the sample
\* project has it
C18_Witness ==
  /\ op = "drag"
  /\ pointer # NoPointer
  /\ \E d \in Range(dependencies) :
       /\ d.from_task = dragging.id
       /\ d.kind = "FinishToStart"
       /\ d.to_task \in TaskIds(tasks)
       /\ TaskById(tasks, d.from_task).end > TaskById(tasks, d.to_task).start
       /\ d.to_task \in TaskIds(SampleTasks)
       /\ TaskById(tasks, d.to_task) = TaskById(SampleTasks, d.to_task)

\* the pointer heights row_index_from_pointer_y is tried on: from two rows
\* above the first row to two rows below row MaxRows
PointerYs ==
  (HeaderHeight - 2 * (RowHeight + RowGap))
    .. (HeaderHeight + (MaxRows + 2) * (RowHeight + RowGap))

\* the top of visible row r (0-based)
RowTop(r) == HeaderHeight + RowGap + r * (RowHeight + RowGap)

\* row_index_from_pointer_y gives a row there is, the first for a pointer
\* above the rows, the last for a pointer below them, the row the pointer is
\* in otherwise, and None when there is no row.
RowTargetClamped ==
  \A y \in PointerYs, n \in 0..MaxRows :
    LET r == RowIndexFromPointerY(y, n)
    IN IF n = 0 THEN r = -1
       ELSE /\ r \in 0..(n - 1)
            /\ y < RowTop(0) => r = 0
            /\ y >= RowTop(n) => r = n - 1
            /\ (y >= RowTop(0) /\ y < RowTop(n)) => (RowTop(r) <= y /\ y < RowTop(r + 1))

\* The dragged() branch of the held move or milestone handle ran in the frame
\* that led to the state and applied the pointer as a reorder.
ReorderedFrame(store, held, at) ==
  /\ at # NoPointer
  /\ held.role \in {"move", "milestone"}
  /\ LET snapshot == GetSnapshot(store, held.id, held.role)
     IN IsReorderDrag(at[1] - snapshot.start_pointer_x,
                      at[2] - snapshot.start_pointer_y)

\* C19: reorder target clamping: row_index_from_pointer_y maps every pointer
\* height to a row in 0..row_count - 1, gives no target when there are no
\* rows, and a reorder frame keeps the tasks it had, with the dragged task
\* first when the pointer is above the first row and last when it is below
\* the last.
C19_ReorderTargetClamped ==
  [][/\ RowTargetClamped
     /\ ReorderedFrame(drag_store', dragging', pointer') =>
          /\ Len(tasks') <= MaxRows
          /\ pointer'[2] < RowTop(0) => tasks'[1].id = dragging'.id
          /\ pointer'[2] >= RowTop(Len(tasks')) =>
               tasks'[Len(tasks')].id = dragging'.id
          /\ op' \in {"drag_start", "drag"} =>
               /\ Len(tasks') = Len(tasks)
               /\ \A i \in 1..Len(tasks) :
                    \E j \in 1..Len(tasks') : tasks'[j].id = tasks[i].id]_vars

\* a reorder frame with the pointer below the last row, and the task, which
\* was pressed on another row, in the last row
C19_Witness ==
  /\ op = "drag"
  /\ ReorderedFrame(drag_store, dragging, pointer)
  /\ pointer[2] >= RowTop(Len(tasks))
  /\ tasks[Len(tasks)].id = dragging.id
  /\ dragging.y < RowTop(Len(tasks) - 1)

\* C20: a push clears redo: at the end of a frame that pushed a snapshot
\* (a task created in the dialog, a subtask added, a task deleted, a
\* dependency added or removed) the redo stack is empty, whatever it held
\* before, and Ctrl+Y in the next frame, with nothing else going on in it,
\* changes neither the tasks, the dependencies, the selection, the status
\* message nor the stacks.
C20_PushClearsRedo ==
  [][/\ pre'.valid => redo_stack' = <<>>
     /\ (pre.valid /\ NothingElse /\ op' = "redo") =>
          UNCHANGED <<tasks, dependencies, selected_task, status_message,
                      undo_stack, redo_stack>>]_vars

\* Ctrl+Y pressed right after a frame whose push found a snapshot on the redo
\* stack
C20_Witness ==
  /\ op = "redo"
  /\ was.valid
  /\ was.op \in AlwaysPush \cup {"link_release"}
  /\ was.redo_len > 0
  /\ redo_stack = <<>>
  /\ tasks = was.tasks

\* The dragged() branch of the held handle of the role ran in the frame that
\* led to the state.
HandleFrame(held, at, role) == at # NoPointer /\ held.role = role

\* C21: a resize moves only the dragged edge: every frame of a left-resize
\* gesture leaves the end at the end recorded at the press and the start at
\* min(start at press + d, end at press); every frame of a right-resize
\* gesture leaves the start at the start recorded at the press and the end at
\* max(end at press + d, start at press); d is the pointer's travel since the
\* press in whole days.
C21_ResizeMovesOneEdge ==
  [][/\ HandleFrame(dragging', pointer', "left") =>
          LET snapshot == GetSnapshot(drag_store', dragging'.id, "left")
              task == TaskById(tasks', dragging'.id)
              d == DragDays(pointer'[1] - snapshot.start_pointer_x)
          IN /\ task.end = snapshot.end
             /\ task.start = Min2(snapshot.start + d, snapshot.end)
     /\ HandleFrame(dragging', pointer', "right") =>
          LET snapshot == GetSnapshot(drag_store', dragging'.id, "right")
              task == TaskById(tasks', dragging'.id)
              d == DragDays(pointer'[1] - snapshot.start_pointer_x)
          IN /\ task.start = snapshot.start
             /\ task.end = Max2(snapshot.end + d, snapshot.start)]_vars

\* the sequence without its element at index i
Without(s, i) == SubSeq(s, 1, i - 1) \o SubSeq(s, i + 1, Len(s))

\* out is ts with the element at from moved to index to and the others in the
\* order they had; ts itself when from = to or an index is out of range
StableMove(ts, from, to, out) ==
  IF from # to /\ from \in 1..Len(ts) /\ to \in 1..Len(ts)
  THEN /\ Len(out) = Len(ts)
       /\ out[to] = ts[from]
       /\ Without(out, to) = Without(ts, from)
  ELSE out = ts

\* C22: a vertical reorder is a stable move: for the task list of every
\* state and every pair of indices, in range or up to two past the end,
\* move_task_by_swapping gives the list with the task at from moved to index
\* to and the others in their order, and the list unchanged when from = to
\* or an index is out of range; a drag frame applied as a reorder leaves the
\* other tasks in the order they had.
C22_ReorderStableMove ==
  [][/\ \A from \in 1..(Len(tasks) + 2), to \in 1..(Len(tasks) + 2) :
          StableMove(tasks, from, to, MoveTaskBySwapping(tasks, from, to))
     /\ (op' = "drag" /\ ReorderedFrame(drag_store', dragging', pointer')) =>
          LET from == IndexOf(tasks, dragging'.id)
              to == IndexOf(tasks', dragging'.id)
          IN /\ to = RowIndexFromPointerY(pointer'[2], Len(tasks)) + 1
             /\ Without(IdsOf(tasks'), to) = Without(IdsOf(tasks), from)]_vars

\* a reorder frame took the dragged task two rows or more from where it was
\* pressed, to the first row
C22_Witness ==
  /\ op = "drag"
  /\ ReorderedFrame(drag_store, dragging, pointer)
  /\ tasks[1].id = dragging.id
  /\ dragging.y >= RowTop(2)
  /\ pointer[2] < RowTop(1)

\* C23: the selection follows the gesture: at the end of the frame in which a
\* drag starts on a bar's move handle, on a resize handle or on a milestone,
\* selected_task is the id of the dragged task.
C23_SelectionFollowsGesture ==
  [][op' = "drag_start" =>
       /\ dragging'.id \in TaskIds(tasks')
       /\ selected_task' = dragging'.id]_vars

\* a drag started on a milestone, whose drag_started branch does not select,
\* and the milestone selected
C23_Witness ==
  /\ op = "drag_start"
  /\ pointer # NoPointer
  /\ dragging.role = "milestone"
  /\ selected_task = dragging.id

\* C24: the changed flag is set only by a frame that changed a start, an end
\* or the order of the tasks: a drag frame that leaves the tasks as they were
\* does not take the host through its chart_interaction.changed branch, so
\* the status message stays what it was.
C24_ChangedOnlyOnChange ==
  [][(/\ op' \in {"drag_start", "drag"}
      /\ pending_add_subtask = NoId
      /\ pending_add_dependency = NoDep
      /\ tasks' = tasks)
       => status_message' = status_message]_vars

\* C25: zoom bounds: from the initial 18 pixels per day, after any sequence
\* of zoom_in and zoom_out, pixels_per_day is within [2, 80].
C25_ZoomBounds ==
  /\ MinPixelsPerDay * PpdUnit <= pixels_per_day
  /\ pixels_per_day <= MaxPixelsPerDay * PpdUnit

\* a zoom_in that was held at the upper limit
C25_Witness ==
  /\ op = "zoom_in"
  /\ pixels_per_day = MaxPixelsPerDay * PpdUnit

\* a zoom_out that was held at the lower limit
C25_WitnessMin ==
  /\ op = "zoom_out"
  /\ pixels_per_day = MinPixelsPerDay * PpdUnit

\* the arrow's route is computed
Drawn == arrow # NoArrow /\ arrow.route # <<>>

\* the middle of the right edge, and of the left edge, of a rect
RightMiddle(rect) == Pos2(rect.right, (rect.top + rect.bottom) \div 2)
LeftMiddle(rect) == Pos2(rect.left, (rect.top + rect.bottom) \div 2)

\* C26: FinishToStart routing on different rows: with E the middle of the
\* right edge of the bar left and N the middle of the left edge of the bar
\* entered, the route is E, (E.x+10, E.y), (E.x+10, N.y), N when
\* E.x + 10 <= N.x - 10, and E, (E.x+10, E.y), (E.x+10, g), (N.x-10, g),
\* (N.x-10, N.y), N with g halfway between E.y and N.y otherwise.
C26_FinishToStartRouting ==
  (Drawn /\ arrow.kind = "FinishToStart") =>
    LET E == RightMiddle(arrow.from_rect)
        N == LeftMiddle(arrow.to_rect)
        out == E.x + Stub * PxUnit
        in == N.x - Stub * PxUnit
    IN Abs(E.y - N.y) >= PxUnit =>
         IF out <= in
         THEN arrow.route = << E, Pos2(out, E.y), Pos2(out, N.y), N >>
         ELSE \E g \in Min2(E.y, N.y)..Max2(E.y, N.y) :
                /\ 2 * g = E.y + N.y
                /\ arrow.route = << E, Pos2(out, E.y), Pos2(out, g), Pos2(in, g),
                                    Pos2(in, N.y), N >>

\* the arrow from a bar that ends two days after the start of the bar a row
\* below it, which it enters, routed by the gutter
C26_Witness ==
  /\ Drawn
  /\ arrow.kind = "FinishToStart"
  /\ arrow.from_rect.right = arrow.to_rect.left + 2 * PixelsPerDay * PxUnit
  /\ arrow.to_rect.top = arrow.from_rect.top + (RowHeight + RowGap) * PxUnit
  /\ Len(arrow.route) = 6

\* C27: same-row routing: for every kind and every arrangement of the two
\* bars, when the point the arrow leaves by and the point it enters by are
\* less than a pixel apart in height, the route is the two points, the
\* straight line from the one to the other.
C27_SameRowStraight ==
  Drawn =>
    LET ends == DependencyEndpoints(arrow.from_rect, arrow.to_rect, arrow.kind)
    IN Abs(ends[1].y - ends[2].y) < PxUnit => arrow.route = << ends[1], ends[2] >>

\* C28: route well-formedness: for every kind and every pair of rects the
\* route has two points or more, begins at the point dependency_endpoints
\* gives for the bar left, ends at the point it gives for the bar entered,
\* and each of its segments is horizontal or vertical.
C28_RouteWellFormed ==
  Drawn =>
    LET ends == DependencyEndpoints(arrow.from_rect, arrow.to_rect, arrow.kind)
        route == arrow.route
    IN /\ Len(route) >= 2
       /\ route[1] = ends[1]
       /\ route[Len(route)] = ends[2]
       /\ \A i \in 1..(Len(route) - 1) :
            route[i].x = route[i + 1].x \/ route[i].y = route[i + 1].y

\* C29: selection validity: in every reachable state selected_task is none
\* or the id of a task of the list, after every operation, new_project, a
\* successful open_project and a successful import_csv among them.
C29_SelectionValid ==
  selected_task # NoId => selected_task \in TaskIds(tasks)

\* C30: history does not cross projects: at the end of a frame in which
\* new_project, a successful open_project or a successful import_csv
\* replaced the project, the undo and redo stacks are empty.
C30_HistoryCleared ==
  (\/ op = "new_project"
   \/ op = "open_project" /\ status_message = "Project loaded"
   \/ op = "import_csv" /\ status_message = "Imported")
    => (undo_stack = <<>> /\ redo_stack = <<>>)

=============================================================================
